---- MODULE Spec2Model ----
(***************************************************************************)
(* Model of fetch_mining_cost.py: the Bitcoin cash-cost estimator.         *)
(*                                                                         *)
(* Modelling conventions                                                   *)
(*  - A datetime at midnight is the number of days since 1970-01-01; a     *)
(*    'YYYY-MM-DD' string is the triple <<y, m, d>>, whose lexicographic   *)
(*    order is the order of the zero-padded strings.                       *)
(*  - A Python float is an exact rational [n |-> numerator, d |-> denom.]  *)
(*    in lowest terms with d > 0; binary rounding error is not modelled.   *)
(*  - A float already rounded to 2 decimals is an integer number of cents. *)
(***************************************************************************)
EXTENDS Integers, Sequences, FiniteSets, TLC

VARIABLES
    \* the date functions (SpecFn)
    date,           \* the datetime argument, in days since 1970-01-01
    reward_ret,     \* <<>> or <<get_block_reward(date)>>
    fee_ret,        \* <<>> or <<get_tx_fee_ratio(date)>>
    eff_ret,        \* <<>> or <<get_dynamic_efficiency(date)>>
    \* the cost formula (SpecCost)
    cost_args,      \* [hashrate_th_s, block_reward, electricity_price, date, price]
    cost_ret,       \* <<>> or <<calculate_cash_cost(...)>>
    iter_ret,       \* <<>> or <<what one iteration of main's loop computes>>
    \* the smoothing pass (SpecSmooth)
    arr,            \* the series handed to smooth, in cents
    smoothed,       \* <<>> or <<smooth(arr)>>
    \* one run of main (Spec, SpecCsv)
    pc,             \* where main is: csv, fetch_hash, fetch_price, align, loop,
                    \* write, done (returned), crashed (uncaught exception)
    csv_file,       \* BTC_USD.csv: [exists, rows]
    btc_history_file, \* btc_history.json: <<>> (not written) or <<prices>>
    hash_data,      \* <<>> or <<what fetch_data('hash-rate') returned>>
    price_data,     \* <<>> or <<what fetch_data('market-price') returned>>
    hash_dict,      \* date string -> hashrate
    price_dict,     \* date string -> price
    common_dates,   \* sorted list of date strings
    results,        \* the results dict
    loop_locals,    \* <<>> or <<the locals of the latest loop iteration>>
    data_file,      \* data.json: <<>> (not written) or <<results>>
    stdout,         \* the [INFO] and [ERR] lines printed, in order
    exit_code       \* <<>> while running, then <<the process exit status>>

fnVars == <<date, reward_ret, fee_ret, eff_ret>>
costVars == <<cost_args, cost_ret, iter_ret>>
smoothVars == <<arr, smoothed>>
mainVars == <<pc, csv_file, btc_history_file, hash_data, price_data, hash_dict,
              price_dict, common_dates, results, loop_locals, data_file, stdout,
              exit_code>>
vars == <<fnVars, costVars, smoothVars, mainVars>>

----------------------------------------------------------------------------
(* Exact rational arithmetic standing for Python's float operators.        *)

Abs(x) == IF x < 0 THEN -x ELSE x

RECURSIVE GCD(_, _)
GCD(a, b) == IF b = 0 THEN a ELSE GCD(b, a % b)

\* the float n / d
Rat(n, d) ==
    LET g == GCD(Abs(n), d)
    IN  [n |-> n \div g, d |-> d \div g]

\* an int used where a float is expected
RatInt(k) == [n |-> k, d |-> 1]

\* a * b
RatMul(a, b) ==
    LET g1 == GCD(Abs(a.n), b.d)
        g2 == GCD(Abs(b.n), a.d)
    IN  [n |-> (a.n \div g1) * (b.n \div g2), d |-> (a.d \div g2) * (b.d \div g1)]

\* a / b, for b > 0
RatDiv(a, b) == RatMul(a, [n |-> b.d, d |-> b.n])

\* a + b
RatAdd(a, b) ==
    LET g == GCD(a.d, b.d)
        t == a.n * (b.d \div g) + b.n * (a.d \div g)
        g2 == GCD(Abs(t), g)
    IN  [n |-> t \div g2, d |-> (a.d \div g) * (b.d \div g2)]

\* a - b
RatSub(a, b) == RatAdd(a, [n |-> -b.n, d |-> b.d])

\* a < b, a <= b, min(a, b)
RatLT(a, b) == RatSub(a, b).n < 0
RatLE(a, b) == RatSub(a, b).n <= 0
RatMin(a, b) == IF RatLE(a, b) THEN a ELSE b

----------------------------------------------------------------------------
(* Calendar: datetime(y, m, d), strptime(s, '%Y-%m-%d') and                *)
(* utcfromtimestamp(x).strftime('%Y-%m-%d') in the proleptic Gregorian     *)
(* calendar.                                                               *)

\* datetime(y, m, d) as days since 1970-01-01
DaysFromCivil(y, m, d) ==
    LET yy  == IF m <= 2 THEN y - 1 ELSE y
        era == yy \div 400
        yoe == yy - era * 400
        mp  == IF m > 2 THEN m - 3 ELSE m + 9
        doy == (153 * mp + 2) \div 5 + d - 1
        doe == yoe * 365 + yoe \div 4 - yoe \div 100 + doy
    IN  era * 146097 + doe - 719468

\* strftime('%Y-%m-%d') of the datetime z days after 1970-01-01
CivilFromDays(z) ==
    LET zz  == z + 719468
        era == zz \div 146097
        doe == zz - era * 146097
        yoe == (doe - doe \div 1460 + doe \div 36524 - doe \div 146096) \div 365
        doy == doe - (365 * yoe + yoe \div 4 - yoe \div 100)
        mp  == (5 * doy + 2) \div 153
        d   == doy - (153 * mp + 2) \div 5 + 1
        m   == IF mp < 10 THEN mp + 3 ELSE mp - 9
        y   == yoe + era * 400
    IN  <<IF m <= 2 THEN y + 1 ELSE y, m, d>>

\* datetime.strptime(s, '%Y-%m-%d')
Strptime(s) == DaysFromCivil(s[1], s[2], s[3])

----------------------------------------------------------------------------
(* Model parameters                                                        *)

EFFICIENCY_TABLE == <<
    <<<<2009, 1, 1>>, 9000>>,
    <<<<2011, 1, 1>>, 5000>>,
    <<<<2013, 1, 1>>, 1000>>,
    <<<<2014, 1, 1>>, 500>>,
    <<<<2015, 1, 1>>, 340>>,
    <<<<2016, 1, 1>>, 250>>,
    <<<<2017, 1, 1>>, 100>>,
    <<<<2018, 1, 1>>, 95>>,
    <<<<2019, 1, 1>>, 70>>,
    <<<<2020, 1, 1>>, 55>>,
    <<<<2021, 1, 1>>, 45>>,
    <<<<2022, 1, 1>>, 38>>,
    <<<<2023, 1, 1>>, 34>>,
    <<<<2024, 1, 1>>, 28>>,
    <<<<2025, 1, 1>>, 25>>,
    <<<<2026, 1, 1>>, 24>> >>

TX_FEE_RATIO_PAST == Rat(5, 100)
TX_FEE_RATIO_NOW == Rat(8, 100)

HALVINGS == <<
    DaysFromCivil(2012, 11, 28),
    DaysFromCivil(2016, 7, 9),
    DaysFromCivil(2020, 5, 11),
    DaysFromCivil(2024, 4, 20) >>

----------------------------------------------------------------------------
(* Parameter interpolators                                                 *)

\* table = [(datetime.strptime(d, '%Y-%m-%d'), v) for d, v in EFFICIENCY_TABLE]
EfficiencyDates == [i \in 1..Len(EFFICIENCY_TABLE) |-> Strptime(EFFICIENCY_TABLE[i][1])]
EfficiencyValues == [i \in 1..Len(EFFICIENCY_TABLE) |-> EFFICIENCY_TABLE[i][2]]

\* the for loop of get_dynamic_efficiency from index i on (1-based), with the
\* fall-through return after it
RECURSIVE EfficiencyLoop(_, _)
EfficiencyLoop(dt, i) ==
    IF i > Len(EFFICIENCY_TABLE) - 1
    THEN RatInt(EfficiencyValues[Len(EFFICIENCY_TABLE)])
    ELSE IF EfficiencyDates[i] <= dt /\ dt < EfficiencyDates[i + 1]
         THEN LET days_total == EfficiencyDates[i + 1] - EfficiencyDates[i]
                  days_elapsed == dt - EfficiencyDates[i]
                  ratio == IF days_total > 0 THEN Rat(days_elapsed, days_total)
                                             ELSE RatInt(0)
              IN  RatAdd(RatInt(EfficiencyValues[i]),
                         RatMul(RatInt(EfficiencyValues[i + 1] - EfficiencyValues[i]), ratio))
         ELSE EfficiencyLoop(dt, i + 1)

\* get_dynamic_efficiency without its first clamp
get_dynamic_efficiency_no_low_clamp(dt) == EfficiencyLoop(dt, 1)

get_dynamic_efficiency(dt) ==
    IF dt <= EfficiencyDates[1]
    THEN RatInt(EfficiencyValues[1])
    ELSE IF dt >= EfficiencyDates[Len(EFFICIENCY_TABLE)]
         THEN RatInt(EfficiencyValues[Len(EFFICIENCY_TABLE)])
         ELSE EfficiencyLoop(dt, 1)

\* get_tx_fee_ratio with the ramp fraction not capped at 1.0
get_tx_fee_ratio_unclamped(dt) ==
    LET latest_halving == HALVINGS[Len(HALVINGS)]
    IN  IF dt < latest_halving
        THEN TX_FEE_RATIO_PAST
        ELSE RatAdd(TX_FEE_RATIO_PAST,
                    RatMul(RatSub(TX_FEE_RATIO_NOW, TX_FEE_RATIO_PAST),
                           Rat(dt - latest_halving, 180)))

get_tx_fee_ratio(dt) ==
    LET latest_halving == HALVINGS[Len(HALVINGS)]
    IN  IF dt < latest_halving
        THEN TX_FEE_RATIO_PAST
        ELSE LET d == dt - latest_halving
             IN  RatAdd(TX_FEE_RATIO_PAST,
                        RatMul(RatSub(TX_FEE_RATIO_NOW, TX_FEE_RATIO_PAST),
                               RatMin(Rat(d, 180), RatInt(1))))

\* the for loop of get_block_reward from halving i on, reward so far
RECURSIVE RewardLoop(_, _, _)
RewardLoop(dt, i, reward) ==
    IF i > Len(HALVINGS) THEN reward
    ELSE IF dt >= HALVINGS[i]
         THEN RewardLoop(dt, i + 1, RatDiv(reward, RatInt(2)))
         ELSE reward

\* get_block_reward halving only strictly after a halving date
RECURSIVE RewardLoopStrict(_, _, _)
RewardLoopStrict(dt, i, reward) ==
    IF i > Len(HALVINGS) THEN reward
    ELSE IF dt > HALVINGS[i]
         THEN RewardLoopStrict(dt, i + 1, RatDiv(reward, RatInt(2)))
         ELSE reward

get_block_reward_exclusive(dt) == RewardLoopStrict(dt, 1, RatInt(50))

get_block_reward(dt) == RewardLoop(dt, 1, RatInt(50))

----------------------------------------------------------------------------
(* Cost formula                                                            *)

ELECTRICITY_LOW == Rat(5, 100)
ELECTRICITY_HIGH == Rat(7, 100)
OVERHEAD_FACTOR == RatInt(1)

\* calculate_cash_cost charging no electricity price
calculate_cash_cost_no_price(hashrate_th_s, block_reward, electricity_price, dt) ==
    LET efficiency == get_dynamic_efficiency(dt)
        tx_fee_ratio == get_tx_fee_ratio(dt)
        daily_btc == RatMul(RatMul(RatInt(144), block_reward),
                            RatAdd(RatInt(1), tx_fee_ratio))
        daily_energy_kwh == RatMul(RatMul(hashrate_th_s, efficiency),
                                   Rat(86400, 3600000))
    IN  RatDiv(RatMul(daily_energy_kwh, OVERHEAD_FACTOR), daily_btc)

\* (x * 86400) / 3_600_000 is computed as x * (86400 / 3_600_000): the same
\* rational, with smaller intermediate integers
calculate_cash_cost(hashrate_th_s, block_reward, electricity_price, dt) ==
    LET efficiency == get_dynamic_efficiency(dt)
        tx_fee_ratio == get_tx_fee_ratio(dt)
        daily_btc == RatMul(RatMul(RatInt(144), block_reward),
                            RatAdd(RatInt(1), tx_fee_ratio))
        daily_energy_kwh == RatMul(RatMul(hashrate_th_s, efficiency),
                                   Rat(86400, 3600000))
        daily_electricity == RatMul(RatMul(daily_energy_kwh, electricity_price),
                                    OVERHEAD_FACTOR)
    IN  RatDiv(daily_electricity, daily_btc)

\* round(x, 2) in cents: the nearest cent, an exact tie going to the even cent
\* (on a float the tie is decided by its binary value; either way the
\* function is non-decreasing)
Round2(x) ==
    LET t == RatMul(x, RatInt(100))
        fl == t.n \div t.d
        twice == 2 * (t.n % t.d)
    IN  IF twice < t.d THEN fl
        ELSE IF twice > t.d THEN fl + 1
        ELSE IF fl % 2 = 0 THEN fl ELSE fl + 1

\* the midpoint taken as the sum, the division by 2 left out
MidCostSum(cost_low, cost_high) == RatAdd(cost_low, cost_high)

\* cost_mid = (cost_low + cost_high) / 2
MidCost(cost_low, cost_high) == RatDiv(RatAdd(cost_low, cost_high), RatInt(2))

\* one iteration of main's loop over common_dates: the arguments it passes to
\* calculate_cash_cost, the three costs and the five values it appends
MainIteration(d_str, hd, pd) ==
    LET date_obj == Strptime(d_str)
        h_raw == hd[d_str]
        reward == get_block_reward(date_obj)
        cost_low == calculate_cash_cost(h_raw, reward, ELECTRICITY_LOW, date_obj)
        cost_high == calculate_cash_cost(h_raw, reward, ELECTRICITY_HIGH, date_obj)
        cost_mid == MidCost(cost_low, cost_high)
    IN  [ hashrate_th_s |-> h_raw,
          cost_low |-> cost_low, cost_mid |-> cost_mid, cost_high |-> cost_high,
          date |-> d_str,
          btc_price |-> Round2(pd[d_str]),
          mining_cost_low |-> Round2(cost_low),
          mining_cost_mid |-> Round2(cost_mid),
          mining_cost_high |-> Round2(cost_high) ]

----------------------------------------------------------------------------
(* Smoothing pass                                                          *)

WINDOW == 14

\* sum(arr[lo - 1 : hi]) for 1-based lo..hi, in cents
RECURSIVE SumRange(_, _, _)
SumRange(a, lo, hi) == IF lo > hi THEN 0 ELSE a[lo] + SumRange(a, lo + 1, hi)

\* smooth averaging one value too many (start = max(0, i - window))
smooth_wide(a, window) ==
    [j \in 1..Len(a) |->
        LET i == j - 1
            start == IF i - window > 0 THEN i - window ELSE 0
        IN  Round2(Rat(SumRange(a, start + 1, i + 1), 100 * (i - start + 1)))]

\* smooth(arr, window): element j is arr[i] of the code for i = j - 1
smooth(a, window) ==
    [j \in 1..Len(a) |->
        LET i == j - 1
            start == IF i - window + 1 > 0 THEN i - window + 1 ELSE 0
        IN  Round2(Rat(SumRange(a, start + 1, i + 1), 100 * (i - start + 1)))]

----------------------------------------------------------------------------
(* Values of the variables a specification does not use                    *)

FnIdle == date = 0 /\ reward_ret = <<>> /\ fee_ret = <<>> /\ eff_ret = <<>>
CostIdle == cost_args = <<>> /\ cost_ret = <<>> /\ iter_ret = <<>>
SmoothIdle == arr = <<>> /\ smoothed = <<>>
MainIdle ==
    /\ pc = "idle"
    /\ csv_file = [exists |-> FALSE, rows |-> <<>>]
    /\ btc_history_file = <<>>
    /\ hash_data = <<>>
    /\ price_data = <<>>
    /\ hash_dict = <<>>
    /\ price_dict = <<>>
    /\ common_dates = <<>>
    /\ results = <<>>
    /\ loop_locals = <<>>
    /\ data_file = <<>>
    /\ stdout = <<>>
    /\ exit_code = <<>>

----------------------------------------------------------------------------
(* SpecFn: the three date functions applied to every date of a range that  *)
(* starts before the first table entry and ends after the last one.        *)

DaysBefore == 400
DaysAfter == 400

FnDates == (EfficiencyDates[1] - DaysBefore)
               .. (EfficiencyDates[Len(EFFICIENCY_TABLE)] + DaysAfter)

InitFn ==
    /\ date \in FnDates
    /\ reward_ret = <<>>
    /\ fee_ret = <<>>
    /\ eff_ret = <<>>
    /\ CostIdle
    /\ SmoothIdle
    /\ MainIdle

CallBlockReward ==
    /\ reward_ret = <<>>
    /\ reward_ret' = <<get_block_reward(date)>>
    /\ UNCHANGED <<date, fee_ret, eff_ret, costVars, smoothVars, mainVars>>

CallTxFeeRatio ==
    /\ fee_ret = <<>>
    /\ fee_ret' = <<get_tx_fee_ratio(date)>>
    /\ UNCHANGED <<date, reward_ret, eff_ret, costVars, smoothVars, mainVars>>

CallDynamicEfficiency ==
    /\ eff_ret = <<>>
    /\ eff_ret' = <<get_dynamic_efficiency(date)>>
    /\ UNCHANGED <<date, reward_ret, fee_ret, costVars, smoothVars, mainVars>>

NextFn == CallBlockReward \/ CallTxFeeRatio \/ CallDynamicEfficiency

SpecFn == InitFn /\ [][NextFn]_vars

----------------------------------------------------------------------------
(* Claims about the date functions, checked under SpecFn                   *)

\* the rewards of the four eras after genesis: 25, 12.5, 6.25, 3.125
EraRewards == <<Rat(25, 1), Rat(25, 2), Rat(25, 4), Rat(25, 8)>>

\* C1: get_block_reward is a step function of the date: 50 strictly before
\* 2012-11-28; 50 / 2^k from the k-th halving date on (that date included)
\* up to the day before the (k+1)-th; and never larger on the next day.
C1_BlockRewardStep ==
    reward_ret # <<>> =>
        LET r == reward_ret[1] IN
        /\ date < DaysFromCivil(2012, 11, 28) => r = RatInt(50)
        /\ \A k \in 1..Len(HALVINGS) :
              ( /\ date >= HALVINGS[k]
                /\ (k < Len(HALVINGS) => date < HALVINGS[k + 1]) )
              => r = EraRewards[k]
        /\ RatLE(get_block_reward(date + 1), r)

\* C1 witness: on the fourth halving date itself the reward is already 3.125
C1_Witness ==
    /\ date = DaysFromCivil(2024, 4, 20)
    /\ reward_ret = <<Rat(3125, 1000)>>

\* C2: get_tx_fee_ratio lies in [0.05, 0.08], is 0.05 before 2024-04-20,
\* 0.08 from 180 days after it on, 0.05 + 0.03 * d / 180 on day d of the
\* ramp (0 <= d < 180), and is never smaller on the next day.
C2_TxFeeRatioRamp ==
    fee_ret # <<>> =>
        LET f == fee_ret[1]
            transition == DaysFromCivil(2024, 4, 20)
            d == date - transition
        IN
        /\ RatLE(Rat(5, 100), f) /\ RatLE(f, Rat(8, 100))
        /\ date < transition => f = Rat(5, 100)
        /\ d >= 180 => f = Rat(8, 100)
        /\ (0 <= d /\ d < 180) => f = Rat(5 * 180 + 3 * d, 100 * 180)
        /\ RatLE(f, get_tx_fee_ratio(date + 1))

\* C2 witness: half way up the ramp the ratio is the average 0.065
C2_Witness ==
    /\ date = DaysFromCivil(2024, 4, 20) + 90
    /\ fee_ret = <<Rat(65, 1000)>>

\* C3: get_dynamic_efficiency returns a value for every date: 9000 at or
\* before the first table entry, 24 at or after the last, the breakpoint's
\* value on a breakpoint, and strictly between two adjacent breakpoints the
\* linear interpolation by elapsed days, which lies between their values.
C3_EfficiencyClamped ==
    eff_ret # <<>> =>
        LET e == eff_ret[1]
            first == DaysFromCivil(2009, 1, 1)
            last == DaysFromCivil(2026, 1, 1)
        IN
        /\ e.d > 0
        /\ date <= first => e = RatInt(9000)
        /\ date >= last => e = RatInt(24)
        /\ \A i \in 1..Len(EFFICIENCY_TABLE) :
              date = Strptime(EFFICIENCY_TABLE[i][1]) => e = RatInt(EFFICIENCY_TABLE[i][2])
        /\ \A i \in 1..(Len(EFFICIENCY_TABLE) - 1) :
              LET lo == Strptime(EFFICIENCY_TABLE[i][1])
                  hi == Strptime(EFFICIENCY_TABLE[i + 1][1])
                  vlo == EFFICIENCY_TABLE[i][2]
                  vhi == EFFICIENCY_TABLE[i + 1][2]
              IN  (lo < date /\ date < hi) =>
                    /\ RatSub(e, RatInt(vlo)) = Rat((vhi - vlo) * (date - lo), hi - lo)
                    /\ vhi * e.d <= e.n /\ e.n <= vlo * e.d

\* C3 witness: an interpolated, non-integer value inside the 2024 era
C3_Witness ==
    /\ date = DaysFromCivil(2024, 4, 20)
    /\ eff_ret = <<Rat(28 * 366 - 3 * 110, 366)>>

----------------------------------------------------------------------------
(* SpecCost: calculate_cash_cost, and one iteration of main's loop, applied *)
(* to hashrates, rewards, electricity prices and dates of bounded sets.     *)

MaxHashrate == 6
MaxElecCents == 8
MaxFactor == 3

CostHashrates ==
    {RatInt(h) : h \in 1..MaxHashrate} \cup {Rat(1, 2), Rat(2501, 2)}
CostRewards == {RatInt(50), RatInt(25), Rat(25, 2), Rat(25, 4), Rat(25, 8)}
CostElecPrices == {Rat(c, 100) : c \in 1..MaxElecCents}
CostDates == {
    DaysFromCivil(2008, 6, 15), DaysFromCivil(2010, 1, 1), DaysFromCivil(2012, 11, 28),
    DaysFromCivil(2016, 7, 9), DaysFromCivil(2022, 1, 1), DaysFromCivil(2024, 4, 20),
    DaysFromCivil(2024, 7, 19), DaysFromCivil(2026, 6, 1) }
CostPrices == {RatInt(60000), Rat(123456, 1000)}

InitCost ==
    /\ cost_args \in [ hashrate_th_s : CostHashrates, block_reward : CostRewards,
                       electricity_price : CostElecPrices, date : CostDates,
                       price : CostPrices ]
    /\ cost_ret = <<>>
    /\ iter_ret = <<>>
    /\ FnIdle
    /\ SmoothIdle
    /\ MainIdle

CallCashCost ==
    /\ cost_ret = <<>>
    /\ cost_ret' = <<calculate_cash_cost(cost_args.hashrate_th_s, cost_args.block_reward,
                                         cost_args.electricity_price, cost_args.date)>>
    /\ UNCHANGED <<cost_args, iter_ret, fnVars, smoothVars, mainVars>>

CallMainIteration ==
    /\ iter_ret = <<>>
    /\ iter_ret' = <<MainIteration(CivilFromDays(cost_args.date),
                                    CivilFromDays(cost_args.date) :> cost_args.hashrate_th_s,
                                    CivilFromDays(cost_args.date) :> cost_args.price)>>
    /\ UNCHANGED <<cost_args, cost_ret, fnVars, smoothVars, mainVars>>

NextCost == CallCashCost \/ CallMainIteration

SpecCost == InitCost /\ [][NextCost]_vars

\* C8: with the date and a positive hashrate fixed, calculate_cash_cost grows
\* strictly with the electricity price, falls strictly with the block
\* reward, and k times the hashrate costs k times as much; in one iteration
\* of main the 0.07 scenario costs strictly more than the 0.05 scenario of
\* the same date, and the iteration appends one date and one price whatever
\* the scenario.
C8_CostMonotone ==
    /\ cost_ret # <<>> =>
        LET c == cost_ret[1]
            h == cost_args.hashrate_th_s
            r == cost_args.block_reward
            e == cost_args.electricity_price
            dt == cost_args.date
        IN
        /\ \A e2 \in CostElecPrices :
              RatLT(e, e2) => RatLT(c, calculate_cash_cost(h, r, e2, dt))
        /\ \A r2 \in CostRewards :
              RatLT(r, r2) => RatLT(calculate_cash_cost(h, r2, e, dt), c)
        /\ \A k \in 1..MaxFactor :
              calculate_cash_cost(RatMul(RatInt(k), h), r, e, dt) = RatMul(RatInt(k), c)
    /\ iter_ret # <<>> =>
        LET it == iter_ret[1] IN
        /\ RatLT(it.cost_low, it.cost_high)
        /\ RatMul(it.cost_low, RatInt(7)) = RatMul(it.cost_high, RatInt(5))
        /\ it.date = CivilFromDays(cost_args.date)
        /\ it.btc_price = Round2(cost_args.price)

\* C8 witness: the scenario of 2022-01-01 (38 J/TH) at 0.05 $/kWh, reward
\* 6.25 and 6 TH/s costs 6 * 38 * 0.024 * 0.05 / (144 * 6.25 * 1.05),
\* and the iteration of the same date has been computed
C8_Witness ==
    /\ cost_args.date = DaysFromCivil(2022, 1, 1)
    /\ cost_args.hashrate_th_s = RatInt(6)
    /\ cost_args.block_reward = Rat(25, 4)
    /\ cost_args.electricity_price = Rat(5, 100)
    /\ cost_ret = <<Rat(6 * 38 * 24 * 5, 144 * 625 * 105 * 10)>>
    /\ iter_ret # <<>>

----------------------------------------------------------------------------
(* SpecSmooth: smooth applied to every series over two values, up to a      *)
(* length beyond the window.                                                *)

MaxSeriesLen == 15

SmoothValues == {0, 50}

InitSmooth ==
    /\ arr \in UNION {[1..n -> SmoothValues] : n \in 0..MaxSeriesLen}
    /\ smoothed = <<>>
    /\ FnIdle
    /\ CostIdle
    /\ MainIdle

CallSmooth ==
    /\ smoothed = <<>>
    /\ smoothed' = <<smooth(arr, WINDOW)>>
    /\ UNCHANGED <<arr, fnVars, costVars, mainVars>>

NextSmooth == CallSmooth

SpecSmooth == InitSmooth /\ [][NextSmooth]_vars

\* the number of values, and their sum, that element j of a trailing average
\* over 14 values covers
TrailingCount(j) == IF j < 14 THEN j ELSE 14
TrailingSum(a, j) == SumRange(a, j - TrailingCount(j) + 1, j)

\* C7: smooth keeps the length; element i (0-based) is the mean of the
\* min(i + 1, 14) values ending at index i, rounded to the nearest cent; a
\* series of length 1 and a constant series come back unchanged.
C7_TrailingAverage ==
    smoothed # <<>> =>
        LET out == smoothed[1] IN
        /\ Len(out) = Len(arr)
        /\ \A j \in 1..Len(arr) :
              LET n == TrailingCount(j)
                  diff == 2 * (out[j] * n - TrailingSum(arr, j))
              IN  -n <= diff /\ diff <= n
        /\ Len(arr) = 1 => out = arr
        /\ (\A j \in 1..Len(arr) : arr[j] = arr[1]) => out = arr

\* C7 witness: a series longer than the window whose first value has left
\* the window of the last element
C7_Witness ==
    /\ Len(arr) = 15
    /\ arr[1] = 50 /\ arr[2] = 50 /\ \A j \in 3..15 : arr[j] = 0
    /\ smoothed # <<>>
    /\ smoothed[1][14] = 7 /\ smoothed[1][15] = 4

----------------------------------------------------------------------------
(* main: the run of the script                                             *)

\* d[k] = v on a dict
DictSet(d, k, v) == [j \in (DOMAIN d) \cup {k} |-> IF j = k THEN v ELSE d[j]]

\* a < b on 'YYYY-MM-DD' strings
KeyLT(a, b) ==
    \/ a[1] < b[1]
    \/ a[1] = b[1] /\ a[2] < b[2]
    \/ a[1] = b[1] /\ a[2] = b[2] /\ a[3] < b[3]

\* sorted(S) for a set of date strings, largest first
RECURSIVE SortedDescending(_)
SortedDescending(S) ==
    IF S = {} THEN <<>>
    ELSE LET hi == CHOOSE k \in S : \A j \in S : j = k \/ KeyLT(j, k)
         IN  <<hi>> \o SortedDescending(S \ {hi})

\* sorted(S) for a set of date strings
RECURSIVE Sorted(_)
Sorted(S) ==
    IF S = {} THEN <<>>
    ELSE LET lo == CHOOSE k \in S : \A j \in S : j = k \/ KeyLT(k, j)
         IN  <<lo>> \o Sorted(S \ {lo})

\* the rows of the csv loop from row i on: the prices dict built, or the
\* exception that leaves the loop. float('abc') raises ValueError (caught);
\* float(None), the Close of a row with too few fields, raises TypeError.
RECURSIVE CsvLoop(_, _, _)
CsvLoop(rows, i, prices) ==
    IF i > Len(rows) THEN [raised |-> FALSE, prices |-> prices]
    ELSE LET row == rows[i] IN
         IF row.Close.kind = "none" THEN [raised |-> TRUE, prices |-> prices]
         ELSE IF row.Close.kind = "text" THEN CsvLoop(rows, i + 1, prices)
         ELSE CsvLoop(rows, i + 1, DictSet(prices, row.Date, Round2(row.Close.val)))

\* generate_btc_history_json(), the first call of main
GenerateBtcHistoryJson ==
    /\ pc = "csv"
    /\ IF ~csv_file.exists
       THEN /\ stdout' = Append(stdout, "[INFO] BTC_USD.csv not found, skipping")
            /\ pc' = "fetch_hash"
            /\ UNCHANGED <<btc_history_file, exit_code>>
       ELSE IF CsvLoop(csv_file.rows, 1, <<>>).raised
            THEN \* TypeError leaves the function and main
                 /\ pc' = "crashed"
                 /\ exit_code' = <<1>>
                 /\ UNCHANGED <<btc_history_file, stdout>>
            ELSE /\ btc_history_file' = <<CsvLoop(csv_file.rows, 1, <<>>).prices>>
                 /\ IF DOMAIN btc_history_file'[1] = {}
                    THEN \* dates[0] raises IndexError
                         /\ pc' = "crashed"
                         /\ exit_code' = <<1>>
                    ELSE /\ pc' = "fetch_hash"
                         /\ UNCHANGED exit_code
                 /\ UNCHANGED stdout
    /\ UNCHANGED <<csv_file, hash_data, price_data, hash_dict, price_dict, common_dates,
                   results, loop_locals, data_file, fnVars, costVars, smoothVars>>

\* what the API may answer: the points of the chart at moments 18 hours
\* apart, starting 2013-12-31 00:00 UTC, so that two of them can fall on the
\* same day
NumStamps == 4

Timestamp(k) == DaysFromCivil(2013, 12, 31) * 86400 + (k - 1) * (18 * 3600)

HashValues == {RatInt(9000), RatInt(12345)}
PriceAt(k) == Rat(730126 + 1111 * k, 1000)

\* the points chosen by f, in chronological order (f[k] = <<>> leaves point k out)
RECURSIVE PointsFrom(_, _)
PointsFrom(f, k) ==
    IF k > NumStamps THEN <<>>
    ELSE (IF f[k] = <<>> THEN <<>> ELSE <<[x |-> Timestamp(k), y |-> f[k][1]]>>)
         \o PointsFrom(f, k + 1)

HashSeries ==
    {PointsFrom(f, 1) : f \in [1..NumStamps -> {<<>>} \cup {<<v>> : v \in HashValues}]}
PriceSeries ==
    {PointsFrom([k \in 1..NumStamps |-> IF k \in S THEN <<PriceAt(k)>> ELSE <<>>], 1) :
        S \in SUBSET (1..NumStamps)}

\* fetch_data: None on any exception (request, status, body), else the values
FetchOutcomes(series) ==
    {[ok |-> FALSE, values |-> <<>>]} \cup {[ok |-> TRUE, values |-> v] : v \in series}

FetchHashRate ==
    /\ pc = "fetch_hash"
    /\ \E res \in FetchOutcomes(HashSeries) :
          /\ hash_data' = <<res>>
          /\ stdout' = IF res.ok THEN stdout
                       ELSE Append(stdout, "[ERR] Error fetching hash-rate")
    /\ pc' = "fetch_price"
    /\ UNCHANGED <<csv_file, btc_history_file, price_data, hash_dict, price_dict,
                   common_dates, results, loop_locals, data_file, exit_code,
                   fnVars, costVars, smoothVars>>

FetchMarketPrice ==
    /\ pc = "fetch_price"
    /\ \E res \in FetchOutcomes(PriceSeries) :
          /\ price_data' = <<res>>
          /\ stdout' = IF res.ok THEN stdout
                       ELSE Append(stdout, "[ERR] Error fetching market-price")
    /\ pc' = "align"
    /\ UNCHANGED <<csv_file, btc_history_file, hash_data, hash_dict, price_dict,
                   common_dates, results, loop_locals, data_file, exit_code,
                   fnVars, costVars, smoothVars>>

\* datetime.utcfromtimestamp(x).strftime('%Y-%m-%d')
DateKey(x) == CivilFromDays(x \div 86400)

\* {DateKey(i['x']): i['y'] for i in values}: a later point replaces an
\* earlier one of the same day
RECURSIVE DictOf(_, _, _)
DictOf(values, i, d) ==
    IF i > Len(values) THEN d
    ELSE DictOf(values, i + 1, DictSet(d, DateKey(values[i].x), values[i].y))

\* the common dates, sorted the wrong way round
CommonDatesDescending(hd, pd) == SortedDescending((DOMAIN hd) \cap (DOMAIN pd))

\* sorted(set(hash_dict.keys()) & set(price_dict.keys()))
CommonDates(hd, pd) == Sorted((DOMAIN hd) \cap (DOMAIN pd))

\* not x, for what fetch_data returned: None or an empty list
Falsy(res) == ~res.ok \/ res.values = <<>>

\* the results dict of line 167
EmptyResults ==
    [ dates |-> <<>>, btc_prices |-> <<>>, mining_cost_low |-> <<>>,
      mining_cost_mid |-> <<>>, mining_cost_high |-> <<>>, last_updated |-> "" ]

\* main from the test of the fetched data to the creation of results
AlignDates ==
    /\ pc = "align"
    /\ IF Falsy(hash_data[1]) \/ Falsy(price_data[1])
       THEN /\ stdout' = Append(stdout, "[ERR] API data unavailable")
            /\ pc' = "done"
            /\ exit_code' = <<0>>
            /\ UNCHANGED <<hash_dict, price_dict, common_dates, results>>
       ELSE /\ hash_dict' = DictOf(hash_data[1].values, 1, <<>>)
            /\ price_dict' = DictOf(price_data[1].values, 1, <<>>)
            /\ common_dates' = CommonDates(hash_dict', price_dict')
            /\ IF common_dates' = <<>>
               THEN \* common_dates[0] raises IndexError
                    /\ pc' = "crashed"
                    /\ exit_code' = <<1>>
                    /\ UNCHANGED results
               ELSE /\ pc' = "loop"
                    /\ results' = EmptyResults
                    /\ UNCHANGED exit_code
            /\ UNCHANGED stdout
    /\ UNCHANGED <<csv_file, btc_history_file, hash_data, price_data, loop_locals,
                   data_file, fnVars, costVars, smoothVars>>

\* one iteration of for d_str in common_dates
LoopIteration ==
    /\ pc = "loop"
    /\ Len(results.dates) < Len(common_dates)
    /\ loop_locals' =
          <<MainIteration(common_dates[Len(results.dates) + 1], hash_dict, price_dict)>>
    /\ results' = [results EXCEPT
          !.dates = Append(@, loop_locals'[1].date),
          !.btc_prices = Append(@, loop_locals'[1].btc_price),
          !.mining_cost_low = Append(@, loop_locals'[1].mining_cost_low),
          !.mining_cost_mid = Append(@, loop_locals'[1].mining_cost_mid),
          !.mining_cost_high = Append(@, loop_locals'[1].mining_cost_high)]
    /\ UNCHANGED <<pc, csv_file, btc_history_file, hash_data, price_data, hash_dict,
                   price_dict, common_dates, data_file, stdout, exit_code,
                   fnVars, costVars, smoothVars>>

\* results with the three cost series smoothed (lines 195-197)
Smoothed(r) ==
    [r EXCEPT !.mining_cost_low = smooth(@, WINDOW),
              !.mining_cost_mid = smooth(@, WINDOW),
              !.mining_cost_high = smooth(@, WINDOW)]

\* results with the summary fields set (lines 199-203)
Summarised(r) ==
    [ dates |-> r.dates,
      btc_prices |-> r.btc_prices,
      mining_cost_low |-> r.mining_cost_low,
      mining_cost_mid |-> r.mining_cost_mid,
      mining_cost_high |-> r.mining_cost_high,
      current_price |-> r.btc_prices[Len(r.btc_prices)],
      current_cost_mid |-> r.mining_cost_mid[Len(r.mining_cost_mid)],
      current_cost_low |-> r.mining_cost_low[Len(r.mining_cost_low)],
      current_cost_high |-> r.mining_cost_high[Len(r.mining_cost_high)],
      last_updated |-> "utcnow" ]

\* after the loop: the three smoothing calls and the summary fields
SmoothResults ==
    /\ pc = "loop"
    /\ Len(results.dates) = Len(common_dates)
    /\ results' = Summarised(Smoothed(results))
    /\ pc' = "write"
    /\ UNCHANGED <<csv_file, btc_history_file, hash_data, price_data, hash_dict,
                   price_dict, common_dates, loop_locals, data_file, stdout, exit_code,
                   fnVars, costVars, smoothVars>>

\* json.dump(results) into data.json, and the return of main
WriteDataFile ==
    /\ pc = "write"
    /\ data_file' = <<results>>
    /\ pc' = "done"
    /\ exit_code' = <<0>>
    /\ UNCHANGED <<csv_file, btc_history_file, hash_data, price_data, hash_dict,
                   price_dict, common_dates, results, loop_locals, stdout,
                   fnVars, costVars, smoothVars>>

\* the state at the start of main, BTC_USD.csv being one of files
MainInit(files) ==
    /\ pc = "csv"
    /\ csv_file \in files
    /\ btc_history_file = <<>>
    /\ hash_data = <<>>
    /\ price_data = <<>>
    /\ hash_dict = <<>>
    /\ price_dict = <<>>
    /\ common_dates = <<>>
    /\ results = <<>>
    /\ loop_locals = <<>>
    /\ data_file = <<>>
    /\ stdout = <<>>
    /\ exit_code = <<>>
    /\ FnIdle
    /\ CostIdle
    /\ SmoothIdle

\* rows of BTC_USD.csv: a parsable Close, text, or no Close field at all
GoodRowA == [Date |-> <<2014, 1, 1>>, Close |-> [kind |-> "num", val |-> Rat(771126, 1000)]]
GoodRowB == [Date |-> <<2014, 1, 2>>, Close |-> [kind |-> "num", val |-> Rat(8025, 10)]]
TextRow == [Date |-> <<2014, 1, 1>>, Close |-> [kind |-> "text", val |-> RatInt(0)]]
ShortRow == [Date |-> <<2014, 1, 3>>, Close |-> [kind |-> "none", val |-> RatInt(0)]]

AbsentFile == [exists |-> FALSE, rows |-> <<>>]

Init == MainInit({AbsentFile, [exists |-> TRUE, rows |-> <<GoodRowA, TextRow, GoodRowB>>]})

Next ==
    \/ GenerateBtcHistoryJson
    \/ FetchHashRate
    \/ FetchMarketPrice
    \/ AlignDates
    \/ LoopIteration
    \/ SmoothResults
    \/ WriteDataFile

Spec == Init /\ [][Next]_vars

----------------------------------------------------------------------------
(* SpecCsv: generate_btc_history_json on every BTC_USD.csv of up to         *)
(* MaxCsvRows rows.                                                         *)

MaxCsvRows == 3

CsvRows == {GoodRowA, GoodRowB, TextRow, ShortRow}
CsvFiles ==
    {AbsentFile} \cup
    {[exists |-> TRUE, rows |-> r] : r \in UNION {[1..n -> CsvRows] : n \in 0..MaxCsvRows}}

InitCsv == MainInit(CsvFiles)

NextCsv == GenerateBtcHistoryJson

SpecCsv == InitCsv /\ [][NextCsv]_vars

----------------------------------------------------------------------------
(* Claims about the run of main                                            *)

\* the days a fetched series has a point on, and the value of the last
\* point of a day
DaysOf(values) == {DateKey(values[i].x) : i \in 1..Len(values)}
LastOfDay(values, day) ==
    LET last == CHOOSE i \in 1..Len(values) :
                    /\ DateKey(values[i].x) = day
                    /\ \A j \in (i + 1)..Len(values) : DateKey(values[j].x) # day
    IN  values[last].y

\* C4: the hashrate main passes to calculate_cash_cost is the API's value
\* converted to TH/s (divided by 1000), not the raw value, and the low cost
\* of the date is the formula's result for the converted hashrate.
C4_HashrateConverted ==
    loop_locals # <<>> =>
        LET it == loop_locals[1]
            raw == LastOfDay(hash_data[1].values, it.date)
        IN
        /\ it.hashrate_th_s = RatDiv(raw, RatInt(1000))
        /\ it.cost_low = calculate_cash_cost(RatDiv(raw, RatInt(1000)),
                                             get_block_reward(Strptime(it.date)),
                                             Rat(5, 100), Strptime(it.date))

\* C5: the dates of the results are days present in both fetched series, in
\* strictly ascending order; the five arrays have one length and entry i
\* belongs to dates[i]; the written result holds every common day, also
\* after the smoothing pass.
C5_DatesAligned ==
    /\ (pc \in {"loop", "write", "done"} /\ results # <<>>) =>
        LET n == Len(results.dates) IN
        /\ Len(results.btc_prices) = n
        /\ Len(results.mining_cost_low) = n
        /\ Len(results.mining_cost_mid) = n
        /\ Len(results.mining_cost_high) = n
        /\ \A i, j \in 1..n : i < j => KeyLT(results.dates[i], results.dates[j])
        /\ \A i \in 1..n :
              /\ results.dates[i] \in DaysOf(hash_data[1].values)
                                      \cap DaysOf(price_data[1].values)
              /\ results.btc_prices[i] =
                    Round2(LastOfDay(price_data[1].values, results.dates[i]))
        /\ pc = "loop" =>
              \A i \in 1..n :
                 results.mining_cost_low[i] =
                    Round2(calculate_cash_cost(
                        LastOfDay(hash_data[1].values, results.dates[i]),
                        get_block_reward(Strptime(results.dates[i])),
                        Rat(5, 100), Strptime(results.dates[i])))
    /\ data_file # <<>> =>
        /\ data_file[1] = results
        /\ {results.dates[i] : i \in 1..Len(results.dates)} =
              DaysOf(hash_data[1].values) \cap DaysOf(price_data[1].values)

\* C5 witness: the hashrate series covers 2013-12-31, 2014-01-01 and
\* 2014-01-02 (the first day twice), the price series only the last two,
\* and the written dates are those two in order
C5_Witness ==
    /\ data_file # <<>>
    /\ Len(hash_data[1].values) = 4
    /\ DaysOf(price_data[1].values) = {<<2014, 1, 1>>, <<2014, 1, 2>>}
    /\ data_file[1].dates = << <<2014, 1, 1>>, <<2014, 1, 2>> >>

\* C6: when a fetch has failed the run ends with a diagnostic, without
\* computing or writing anything, and with a non-zero exit status; the
\* loop and the write of data.json come only after two successful fetches.
C6_FetchFailureAborts ==
    LET failed == \/ (hash_data # <<>> /\ ~hash_data[1].ok)
                  \/ (price_data # <<>> /\ ~price_data[1].ok)
    IN
    /\ failed =>
          /\ pc \in {"fetch_price", "align", "done"}
          /\ results = <<>>
          /\ loop_locals = <<>>
          /\ data_file = <<>>
    /\ (failed /\ pc = "done") =>
          /\ \E i \in 1..Len(stdout) : stdout[i] = "[ERR] API data unavailable"
          /\ exit_code # <<0>>
    /\ (pc \in {"loop", "write"} \/ data_file # <<>>) =>
          /\ hash_data # <<>> /\ hash_data[1].ok
          /\ price_data # <<>> /\ price_data[1].ok

\* the date-to-price mapping of the rows whose Close parses, a later row
\* replacing an earlier one of the same date
ParsedRows(rows) == {i \in 1..Len(rows) : rows[i].Close.kind = "num"}
WellFormedPrices(rows) ==
    [d \in {rows[i].Date : i \in ParsedRows(rows)} |->
        LET last == CHOOSE i \in ParsedRows(rows) :
                        /\ rows[i].Date = d
                        /\ \A j \in ParsedRows(rows) : rows[j].Date = d => j <= i
        IN  Round2(rows[last].Close.val)]

\* C9: loading BTC_USD.csv never ends the run: without the file nothing is
\* written and main goes on to the fetch; with it, whatever its rows, every
\* row whose Close parses is loaded, the others are skipped, and main goes
\* on to the fetch.
C9_CsvLoadNeverFatal ==
    pc # "csv" =>
        /\ pc # "crashed"
        /\ ~csv_file.exists => btc_history_file = <<>>
        /\ csv_file.exists => btc_history_file = <<WellFormedPrices(csv_file.rows)>>

\* C10: in the results, before and after smoothing and as written, at every
\* index low <= mid <= high, and the current_cost_* fields are the last
\* elements of the three series.
C10_CostsOrdered ==
    /\ (pc \in {"loop", "write", "done"} /\ results # <<>>) =>
          \A i \in 1..Len(results.dates) :
             /\ results.mining_cost_low[i] <= results.mining_cost_mid[i]
             /\ results.mining_cost_mid[i] <= results.mining_cost_high[i]
    /\ data_file # <<>> =>
          LET r == data_file[1]
              n == Len(r.dates)
          IN
          /\ \A i \in 1..n :
                /\ r.mining_cost_low[i] <= r.mining_cost_mid[i]
                /\ r.mining_cost_mid[i] <= r.mining_cost_high[i]
          /\ r.current_cost_low = r.mining_cost_low[n]
          /\ r.current_cost_mid = r.mining_cost_mid[n]
          /\ r.current_cost_high = r.mining_cost_high[n]
          /\ r.current_cost_low <= r.current_cost_mid
          /\ r.current_cost_mid <= r.current_cost_high

\* C10 witness: a written result of three dates whose smoothed series are
\* strictly apart at the last index and differ from the unsmoothed values
C10_Witness ==
    /\ data_file # <<>>
    /\ Len(data_file[1].dates) = 3
    /\ data_file[1].current_cost_low < data_file[1].current_cost_mid
    /\ data_file[1].current_cost_mid < data_file[1].current_cost_high
    /\ data_file[1].current_cost_low # loop_locals[1].mining_cost_low

====
